---- MODULE Spec2Model ----
(***************************************************************************)
(* Model of the block-task orchestration of cluster_tools:                 *)
(*   production/components/threshold_components.py  (ThresholdTask and the *)
(*   worker threshold_blocks), chained with                                *)
(*   cluster_tools/paintera/conversion_workflow.py  (WritePainteraMetadata *)
(*   as the dependent task of a two-task chain).                           *)
(***************************************************************************)
EXTENDS Integers, Sequences, FiniteSets, TLC

\* ---------------------------------------------------------------- bounds
MaxBlocks == 2        \* n_blocks ranges over 0..MaxBlocks in local mode
MaxClusterBlocks == 1 \* n_blocks ranges over 0..MaxClusterBlocks in cluster mode,
                      \* where queued jobs interleave with the whole of run()
MaxJobsParam == 2     \* max_jobs ranges over 1..MaxJobsParam
MaxRuns == 2          \* how often the scheduler may (re-)run ThresholdTask
MaxClusterWork == 2   \* a re-run in cluster mode is explored while all runs together
                      \* hand at most this many blocks to the queue, where the jobs
                      \* of all runs interleave
MaxLocalJobs == 4     \* a re-run in local mode is explored while all runs together
                      \* hand at most this many jobs to their pools
MaxPrepBlocks == 8    \* n_blocks ranges over 0..MaxPrepBlocks in SpecPrepare
MaxPrepJobs == 4      \* max_jobs ranges over 1..MaxPrepJobs in SpecPrepare
MaxAxis == 3          \* axis lengths of shape and block shape in SpecBlocking
MaxScale == 3         \* scale indices range over 0..MaxScale in SpecWorkflow

BlockIds == 0..(MaxPrepBlocks - 1) \cup 0..(MaxBlocks - 1) \cup 0..(MaxClusterBlocks - 1)
JobIds == 0..(MaxPrepJobs - 1) \cup 0..(MaxJobsParam - 1)

\* duration a worker may measure for a block
Durations == {1}

\* np.sum(mask) == 0 for the block
EmptyMask == 0 - 1
\* what the input volume may hold in a block: an empty mask, or a mask with
\* data, for which affs.max() after labelling is the given label id
BlockData == {EmptyMask, 1}

VARIABLES
    n_blocks,          \* blocking.numberOfBlocks of the mask dataset
    max_jobs,          \* luigi parameter max_jobs
    run_local,         \* luigi parameter run_local
    pc,                \* position of ThresholdTask.run
    runs,              \* number of times run() was entered
    n_jobs,            \* local n_jobs of run()
    job_id,            \* loop variable of _prepare_jobs / of the submit loop
    job_configs,       \* tmp_folder/threshold_config_job<j>.json
    prepared,          \* the job configs as they were when _prepare_jobs
                       \* last returned (history)
    jobs,              \* state of the unit of work dispatched for each job id
    dispatched,        \* number of _submit_job calls issued by this run
    queue_other,       \* a job owned by user 'papec' is in the cluster queue
    files,             \* tmp_folder/threshold_result_block<b>.json
    block_id,          \* loop variable of _collect_outputs
    times, n_components, processed_blocks,   \* lists of _collect_outputs
    marker,            \* tmp_folder/threshold.log (output of ThresholdTask)
    partial_log,       \* tmp_folder/threshold_partial.json
    error,             \* exception that left run(), if any
    t2pc,              \* position of the dependent task WritePainteraMetadata
    marker2,           \* tmp_folder/write_paintera_metadata.log exists
    readable,          \* block ids whose result file was well-formed when
                       \* _collect_outputs was entered (history)
    out_dataset,       \* the dataset f[out_key]: whether it exists, its shape
    old_jobs,          \* jobs of earlier runs that are still queued or executing,
                       \* one table per earlier run
    block_data,        \* per block of the input volume: EmptyMask, or the
                       \* largest label id of its thresholded affinities
    ds_written,        \* block ids whose box of ds_out has been written
    cpc,               \* position inside the iteration of _collect_outputs: at
                       \* the read of the result file, or at os.remove
    produced,          \* block ids whose result file was well-formed at some
                       \* moment since _collect_outputs was entered (history)
    shape,             \* ds.shape of the mask / output dataset
    block_shape,       \* config['block_shape']
    bpc,               \* position of the loop over block ids that derives boxes
    boxes,             \* bounding boxes bb derived so far, by block id
    wf,                \* which workflow method is being called, if any
    wpc,               \* position inside that method
    raw_scales,        \* scale indices i of the directories raw_key/s<i>
    label_scale,       \* luigi parameter label_scale
    label_exists,      \* label_out_key/data/s<label_scale> is in the file
    use_label_multiset, \* luigi parameter use_label_multiset
    assignment_key,    \* luigi parameter assignment_key
    data,              \* scales i for which label_out_key/data/s<i> exists
    scale_factors,     \* list scale_factors of _align_scales
    chain,             \* tasks constructed so far, in order of construction
    t_dep,             \* task handed to the next step (0: self.dependency)
    werror,            \* exception that left the method, if any
    effective_scales,  \* luigi parameter effective_scales
    base_config,       \* value of WorkflowBase.get_config()
    configs            \* value returned by get_config

taskvars == <<n_blocks, max_jobs, run_local, pc, runs, n_jobs, job_id, job_configs,
              jobs, dispatched, queue_other, files, block_id, times, n_components,
              processed_blocks, marker, partial_log, error, t2pc, marker2, readable,
              out_dataset, old_jobs, block_data, ds_written, cpc, produced, prepared>>
blkvars == <<shape, block_shape, bpc, boxes>>

wfvars == <<wf, wpc, raw_scales, label_scale, label_exists, use_label_multiset,
            assignment_key, data, scale_factors, chain, t_dep, werror,
            effective_scales, base_config, configs>>

vars == <<taskvars, cpc, produced, prepared, blkvars, wfvars>>

\* ------------------------------------------------------------- helpers
Min(a, b) == IF a < b THEN a ELSE b

Range(s) == {s[i] : i \in 1..Len(s)}

\* list(range(n))
RangeList(n) == [i \in 1..n |-> i - 1]

\* python slice list[start::step] for step >= 1
SliceFrom(list, start, step) ==
    LET cnt == IF start >= Len(list) THEN 0
               ELSE (Len(list) - start + step - 1) \div step
    IN  [i \in 1..cnt |-> list[start + (i - 1) * step + 1]]

\* n_jobs = min(n_blocks, self.max_jobs)
NJobsNoMin(nb, mj) == mj
NJobs(nb, mj) == Min(nb, mj)

\* block_jobs = block_list[job_id::n_jobs]
BlockJobsContiguous(j, nj, nb) ==
    LET per == (nb + nj - 1) \div nj
    IN  [i \in 1..(IF j * per >= nb THEN 0 ELSE Min(per, nb - j * per)) |-> j * per + i - 1]
BlockJobs(j, nj, nb) == SliceFrom(RangeList(nb), j, nj)

\* ------------------------------------------------------------ blocking
\* roiBegin [0, 0, 0]: the volumes are three-dimensional
Arity == 3

CeilDiv(a, b) == (a + b - 1) \div b

RECURSIVE Prod(_)
Prod(seq) == IF Len(seq) = 0 THEN 1 ELSE Head(seq) * Prod(Tail(seq))

\* number of blocks along each axis
BlocksPerAxis(S, B) == [i \in 1..Len(S) |-> CeilDiv(S[i], B[i])]

\* blocking.numberOfBlocks
NumberOfBlocks(S, B) == Prod(BlocksPerAxis(S, B))

\* blocking.getBlock(id): row-major grid position (first axis slowest),
\* block extent truncated at the volume boundary
GetBlock(id, S, B) ==
    LET bpa == BlocksPerAxis(S, B)
        stride(i) == Prod(SubSeq(bpa, i + 1, Len(bpa)))
        coord(i) == (id \div stride(i)) % bpa[i]
    IN  [begin |-> [i \in 1..Len(S) |-> coord(i) * B[i]],
         end |-> [i \in 1..Len(S) |-> Min(coord(i) * B[i] + B[i], S[i])]]

\* bb = tuple(slice(beg, end) for beg, end in zip(block.begin, block.end))
BBInclusive(block) ==
    [i \in 1..Len(block.begin) |-> [start |-> block.begin[i], stop |-> block.end[i] + 1]]
BB(block) ==
    [i \in 1..Len(block.begin) |-> [start |-> block.begin[i], stop |-> block.end[i]]]

\* a voxel lies in the region a tuple of slices selects
InBox(p, bb) == \A i \in 1..Len(bb) : bb[i].start <= p[i] /\ p[i] < bb[i].stop

\* ------------------------------------------------------------- files
NoConfig == [exists |-> FALSE, empty |-> FALSE, block_list |-> <<>>]
\* a job config after open(config_path, 'w') and before json.dump: the file
\* exists and holds no text
EmptyConfig == [exists |-> TRUE, empty |-> TRUE, block_list |-> <<>>]
NoArtifact == [kind |-> "missing", t |-> 0, n |-> 0]
NoLog == [exists |-> FALSE, n_components |-> <<>>, times |-> <<>>, processed_blocks |-> <<>>]
NoError == [kind |-> "none", processed |-> 0, total |-> 0, path |-> ""]
NoJob == [st |-> "none", idx |-> 0, block_ids |-> <<>>]
NoDataset == [exists |-> FALSE, shape |-> <<>>]

\* a result file between open(res_file, 'w') and json.dump: empty
Truncated == [kind |-> "empty", t |-> 0, n |-> 0]
\* a result file that holds the text of one json.dump followed by the tail
\* of a longer text written before it: json.load raises "Extra data"
Garbled == [kind |-> "unparseable", t |-> 0, n |-> 0]

PartialLogPath == "threshold_partial.json"

\* contents of a result file that json.load / res['t'] / res['n_components'] reject
MalformedKinds == {"unparseable", "no_t", "no_n"}
Leftover(kind) == [kind |-> kind, t |-> IF kind = "no_n" THEN 1 ELSE 0, n |-> 0]
LeftoverArtifacts == {NoArtifact} \cup {Leftover(k) : k \in MalformedKinds}

\* ------------------------------------------------------------ workflows
\* a task object as the workflows construct it: the stage, the scales of its
\* input and output dataset, its relative scale factor and its dependency
\* (position in chain of the task it depends on, 0 for self.dependency)
Task(kind, in_scale, out_scale, factor, dep) ==
    [kind |-> kind, in_scale |-> in_scale, out_scale |-> out_scale, factor |-> factor, dep |-> dep]

\* a task constructed without a dependency argument
NoDependency == 0 - 1

RECURSIVE Pow2(_)
Pow2(n) == IF n = 0 THEN 1 ELSE 2 * Pow2(n - 1)

\* [::-1]
Reverse(seq) == [i \in 1..Len(seq) |-> seq[Len(seq) + 1 - i]]

\* np.sort(raw_scales)
RECURSIVE SortedSeq(_)
SortedSeq(S) ==
    IF S = {} THEN <<>>
    ELSE LET m == CHOOSE x \in S : \A y \in S : x <= y
         IN  <<m>> \o SortedSeq(S \ {m})

\* np.argwhere(raw_scales == self.label_scale)[0][0], for a scale in the list
ArgWhere(rs, scale) == (CHOOSE k \in 1..Len(rs) : rs[k] = scale) - 1

\* f[scale_key].attrs['downsamplingFactors'] in axis order XYZ: each level
\* halves the resolution in X and Y
DownsamplingFactors(scale) == <<Pow2(scale), Pow2(scale), 1>>

\* the list scale_factors of _align_scales: one entry per raw scale, in the
\* order of the sorted raw scales
ScaleFactorList(rs) ==
    [k \in 1..Len(rs) |-> IF rs[k] = 0 THEN <<1, 1, 1>> ELSE Reverse(DownsamplingFactors(rs[k]))]

\* [sf_out // sf_in for sf_out, sf_in in zip(..)]
RelativeFactor(sf_out, sf_in) == [i \in 1..Min(Len(sf_out), Len(sf_in)) |-> sf_out[i] \div sf_in[i]]

\* the loop of _upsample_labels / _downsample_labels over the target scales;
\* scale_factors[scale] raises IndexError for a scale beyond the list
RECURSIVE SampleLoop(_, _, _, _, _, _)
SampleLoop(kind, target_scales, sfs, in_scale, dep, ch) ==
    IF Len(target_scales) = 0 THEN [chain |-> ch, dep |-> dep, err |-> FALSE]
    ELSE LET out_scale == Head(target_scales)
         IN  IF out_scale >= Len(sfs) \/ in_scale >= Len(sfs)
             THEN [chain |-> ch, dep |-> dep, err |-> TRUE]
             ELSE SampleLoop(kind, Tail(target_scales), sfs, out_scale, Len(ch) + 1,
                             Append(ch, Task(kind, in_scale, out_scale,
                                             RelativeFactor(sfs[out_scale + 1], sfs[in_scale + 1]), dep)))

\* _upsample_labels: target_scales = upsample_scales[::-1]
UpsampleLabelsForward(upsample_scales, sfs, origin, dependency, ch) ==
    SampleLoop("upscaling", upsample_scales, sfs, origin, dependency, ch)
UpsampleLabels(upsample_scales, sfs, origin, dependency, ch) ==
    SampleLoop("upscaling", Reverse(upsample_scales), sfs, origin, dependency, ch)

\* _downsample_labels
DownsampleLabels(downsample_scales, sfs, origin, dependency, ch) ==
    SampleLoop("downscaling", downsample_scales, sfs, origin, dependency, ch)

\* attributes of a BlocksFromMaskWorkflow object: its luigi parameters and
\* those of WorkflowBase that the code reads
MaskWorkflowAttributes ==
    {"mask_path", "mask_key", "output_path", "output_key_prefix", "shape", "effective_scales",
     "tmp_folder", "max_jobs", "config_dir", "dependency"}

\* configuration keys: the global section and one per stage name
ConfigKeys == {"global", "unique_block_labels", "downscaling", "upscaling", "blocks_from_mask"}
\* <Stage>Local.default_task_config()
DefaultTaskConfig(stage) == "default"
NoConfigs == [k \in ConfigKeys |-> "absent"]
\* dict.update
Update(d, u) == [k \in DOMAIN d |-> IF k \in DOMAIN u THEN u[k] ELSE d[k]]

\* no workflow method is being called
NoConversionInput ==
    /\ raw_scales = {}
    /\ label_scale = 0
    /\ label_exists = FALSE
    /\ use_label_multiset = FALSE
    /\ assignment_key = ""
    /\ data = {}
NoWorkflowResult ==
    /\ scale_factors = <<>>
    /\ chain = <<>>
    /\ t_dep = 0
    /\ werror = "none"
    /\ configs = NoConfigs
WorkflowOff ==
    /\ wf = "none"
    /\ wpc = "off"
    /\ NoConversionInput
    /\ NoWorkflowResult
    /\ effective_scales = <<>>
    /\ base_config = NoConfigs

\* ---------------------------------------------------------------- Init
InitCommon ==
    /\ run_local \in BOOLEAN
    /\ pc = "idle"
    /\ runs = 0
    /\ n_jobs = 0
    /\ job_id = 0
    /\ job_configs = [j \in JobIds |-> NoConfig]
    /\ prepared = [j \in JobIds |-> NoConfig]
    /\ jobs = [j \in JobIds |-> NoJob]
    /\ dispatched = 0
    /\ block_id = 0
    /\ times = <<>>
    /\ n_components = <<>>
    /\ processed_blocks = <<>>
    /\ marker = NoLog
    /\ partial_log = NoLog
    /\ error = NoError
    /\ t2pc = "idle"
    /\ marker2 = FALSE
    /\ readable = {}
    /\ boxes = <<>>
    /\ old_jobs = <<>>
    /\ ds_written = {}
    /\ cpc = "read"
    /\ produced = {}

\* a volume of k unit blocks in a row
LineVolume(k) ==
    /\ shape = <<k, 1, 1>>
    /\ block_shape = <<1, 1, 1>>

\* The working directory may hold result files that an earlier aggregation
\* could not read (they are never removed, line 80-81).
Init ==
    /\ InitCommon
    /\ \E k \in 0..(IF run_local THEN MaxBlocks ELSE MaxClusterBlocks) : LineVolume(k)
    /\ n_blocks = NumberOfBlocks(shape, block_shape)
    /\ bpc = "off"
    /\ WorkflowOff
    /\ out_dataset = NoDataset
    /\ max_jobs \in 1..MaxJobsParam
    /\ queue_other \in (IF run_local THEN {FALSE} ELSE BOOLEAN)
    /\ \E f \in [0..(n_blocks - 1) -> LeftoverArtifacts] :
          files = [b \in BlockIds |-> IF b < n_blocks THEN f[b] ELSE NoArtifact]
    /\ block_data \in [0..(n_blocks - 1) -> BlockData]

InitPrepare ==
    /\ \E k \in 0..MaxPrepBlocks : LineVolume(k)
    /\ n_blocks = NumberOfBlocks(shape, block_shape)
    /\ bpc = "off"
    /\ WorkflowOff
    /\ out_dataset \in {NoDataset, [exists |-> TRUE, shape |-> shape],
                        [exists |-> TRUE, shape |-> <<n_blocks + 1, 1, 1>>]}
    /\ max_jobs \in 1..MaxPrepJobs
    /\ InitCommon
    /\ queue_other = FALSE
    /\ files = [b \in BlockIds |-> NoArtifact]
    /\ block_data = [b \in 0..(n_blocks - 1) |-> 1]

\* every shape and block shape of the arity, applied to the blocking alone
InitBlocking ==
    /\ InitCommon
    /\ run_local = TRUE
    /\ max_jobs = 1
    /\ queue_other = FALSE
    /\ files = [b \in BlockIds |-> NoArtifact]
    /\ shape \in [1..Arity -> 1..MaxAxis]
    /\ block_shape \in [1..Arity -> 1..MaxAxis]
    /\ n_blocks = NumberOfBlocks(shape, block_shape)
    /\ bpc = "blocks"
    /\ WorkflowOff
    /\ out_dataset = NoDataset
    /\ block_data = [b \in 0..(n_blocks - 1) |-> 1]

\* a call of one workflow method on a workflow object with any parameters
\* and any file contents within the bounds
InitWorkflow ==
    /\ InitCommon
    /\ run_local = TRUE
    /\ max_jobs = 1
    /\ queue_other = FALSE
    /\ files = [b \in BlockIds |-> NoArtifact]
    /\ LineVolume(0)
    /\ n_blocks = 0
    /\ bpc = "off"
    /\ out_dataset = NoDataset
    /\ block_data = <<>>
    /\ NoWorkflowResult
    /\ \/ /\ wf = "conversion"
          /\ wpc = "make_labels"
          /\ raw_scales \in SUBSET (0..MaxScale)
          /\ label_scale \in 0..MaxScale
          /\ label_exists \in BOOLEAN
          /\ use_label_multiset \in BOOLEAN
          /\ assignment_key \in {"", "assignments"}
          /\ data = IF label_exists THEN {label_scale} ELSE {}
          /\ effective_scales = <<>>
          /\ base_config = NoConfigs
       \/ /\ wf = "mask"
          /\ wpc = "requires"
          /\ NoConversionInput
          /\ \E n \in 0..MaxScale : effective_scales = [i \in 1..n |-> Pow2(i - 1)]
          /\ base_config = NoConfigs
       \/ /\ wf \in {"conversion_config", "mask_config"}
          /\ wpc = "get_config"
          /\ NoConversionInput
          /\ effective_scales = <<>>
          /\ base_config \in [ConfigKeys -> {"absent", "default", "custom"}]

\* ------------------------------------------------- luigi task protocol
\* ThresholdTask.output(): the task is complete iff threshold.log exists
ThresholdComplete == marker.exists
\* WritePainteraMetadata.output()
MetadataComplete == marker2
\* WritePainteraMetadata.requires(): return self.dependency
RequiresNothing == TRUE
Requires == ThresholdComplete

\* ------------------------------------------------ ThresholdTask.run
WellFormed == {b \in 0..(n_blocks - 1) : files[b].kind = "ok"}
\* a unit of work that is queued, or whose process is executing
\* ("writing": between open(res_file, 'w') and json.dump; "orphaned": the
\* same, after os.remove took the path of the file the process holds open)
IsActive(job) == job.st \in {"pending", "running", "writing", "orphaned"}
Active(j) == IsActive(jobs[j])
\* a job that an earlier run submitted is still queued or executing
OldActive == \E g \in 1..Len(old_jobs) : \E j \in JobIds : IsActive(old_jobs[g][j])
\* the job with id j that run g dispatched
JobOf(g, j) == IF g = runs THEN jobs[j] ELSE old_jobs[g][j]
\* the job with id j of run g moves on; a job of an earlier run that has
\* ended leaves the queue
SetJob(g, j, job) ==
    IF g = runs
    THEN /\ jobs' = [jobs EXCEPT ![j] = job]
         /\ UNCHANGED old_jobs
    ELSE /\ old_jobs' = [old_jobs EXCEPT ![g][j] = IF IsActive(job) THEN job ELSE NoJob]
         /\ UNCHANGED jobs

Fail(kind) == [kind |-> kind, processed |-> 0, total |-> 0, path |-> ""]

\* f.require_dataset(key, shape=shape, ...): creates the dataset if it is
\* absent, returns the present one if its shape matches, raises otherwise
RequireDataset(ds, shp) ==
    IF ~ds.exists THEN [ds |-> [exists |-> TRUE, shape |-> shp], err |-> FALSE]
    ELSE [ds |-> ds, err |-> ds.shape # shp]

\* run(), line 114: make the output dataset, with the shape of the mask
MakeOutputDatasetNever(ds, shp) == [ds |-> ds, err |-> FALSE]
MakeOutputDataset(ds, shp) == RequireDataset(ds, shp)

\* threshold_blocks, line 177-178: shape = ds_out.shape
WorkerShapeReversed(ds) == Reverse(ds.shape)
WorkerShape(ds) == ds.shape

\* threshold_blocks, line 197-202: the box the worker derives for a block id
WorkerBB(b) == BB(GetBlock(b, WorkerShape(out_dataset), block_shape))

\* run() up to and including n_jobs = min(...); the scheduler enters run()
\* only for a task that is not complete. Nothing cancels the jobs that an
\* earlier run left in the queue: they stay queued or go on executing.
RunStart ==
    /\ pc \in {"idle", "failed"}
    /\ ~ThresholdComplete
    /\ runs < MaxRuns
    /\ (~run_local /\ runs >= 1) => (runs + 1) * n_blocks <= MaxClusterWork
    /\ (run_local /\ runs >= 1) => (runs + 1) * NJobs(n_blocks, max_jobs) <= MaxLocalJobs
    /\ runs' = runs + 1
    /\ old_jobs' = IF runs = 0 THEN old_jobs
                   ELSE Append(old_jobs, [j \in JobIds |-> IF Active(j) THEN jobs[j] ELSE NoJob])
    /\ produced' = {}
    /\ LET made == MakeOutputDataset(out_dataset, shape)
       IN  /\ out_dataset' = made.ds
           /\ n_jobs' = IF made.err THEN 0 ELSE NJobs(n_blocks, max_jobs)
           /\ error' = IF made.err THEN Fail("DatasetError") ELSE NoError
           /\ pc' = IF made.err THEN "failed" ELSE "prepare"
    /\ job_id' = 0
    /\ jobs' = [j \in JobIds |-> NoJob]
    /\ dispatched' = 0
    /\ block_id' = 0
    /\ times' = <<>>
    /\ n_components' = <<>>
    /\ processed_blocks' = <<>>
    /\ readable' = {}
    /\ UNCHANGED <<n_blocks, max_jobs, run_local, job_configs, queue_other,
                   files, marker, partial_log, t2pc, marker2,
                   block_data, ds_written, cpc, prepared, blkvars, wfvars>>

\* one iteration of the loop of _prepare_jobs up to and including
\* open(config_path, 'w') (line 59-64), which creates the file or truncates
\* it: until json.dump has written, the config exists and holds no text
PrepareOpenAppend ==
    /\ pc = "prepare"
    /\ job_id < n_jobs
    /\ job_configs' = [job_configs EXCEPT ![job_id] =
                          IF job_configs[job_id].exists THEN job_configs[job_id]
                          ELSE EmptyConfig]
    /\ pc' = "dump"
    /\ UNCHANGED <<n_blocks, max_jobs, run_local, runs, n_jobs, job_id, jobs, dispatched,
                   queue_other, files, block_id, times, n_components,
                   processed_blocks, marker, partial_log, error, t2pc, marker2, readable,
                   out_dataset,
                   old_jobs, block_data, ds_written, cpc, produced, prepared, blkvars, wfvars>>
PrepareOpen ==
    /\ pc = "prepare"
    /\ job_id < n_jobs
    /\ job_configs' = [job_configs EXCEPT ![job_id] = EmptyConfig]
    /\ pc' = "dump"
    /\ UNCHANGED <<n_blocks, max_jobs, run_local, runs, n_jobs, job_id, jobs, dispatched,
                   queue_other, files, block_id, times, n_components,
                   processed_blocks, marker, partial_log, error, t2pc, marker2, readable,
                   out_dataset,
                   old_jobs, block_data, ds_written, cpc, produced, prepared, blkvars, wfvars>>

\* json.dump(job_config, f) and the close of the file (line 65), then the
\* step to the next job id. The text goes to the position of the handle,
\* which is the end of what open() left in the file: nothing.
PrepareJob ==
    /\ pc = "dump"
    /\ job_configs' = [job_configs EXCEPT ![job_id] =
                          [exists |-> TRUE, empty |-> FALSE,
                           block_list |-> job_configs[job_id].block_list
                                          \o BlockJobs(job_id, n_jobs, n_blocks)]]
    /\ job_id' = job_id + 1
    /\ pc' = "prepare"
    /\ UNCHANGED <<n_blocks, max_jobs, run_local, runs, n_jobs, jobs, dispatched,
                   queue_other, files, block_id, times, n_components,
                   processed_blocks, marker, partial_log, error, t2pc, marker2, readable,
                   out_dataset,
                   old_jobs, block_data, ds_written, cpc, produced, prepared, blkvars, wfvars>>

\* _prepare_jobs returns; run() branches on run_local
PrepareDone ==
    /\ pc = "prepare"
    /\ job_id = n_jobs
    /\ job_id' = 0
    /\ prepared' = job_configs
    /\ pc' = IF run_local THEN "dispatch" ELSE "submit"
    /\ UNCHANGED <<n_blocks, max_jobs, run_local, runs, n_jobs, job_configs, jobs,
                   dispatched, queue_other, files, block_id, times, n_components,
                   processed_blocks, marker, partial_log, error, t2pc, marker2, readable,
                   out_dataset,
                   old_jobs, block_data, ds_written, cpc, produced, blkvars, wfvars>>

\* local mode: ProcessPoolExecutor(n_jobs), which rejects max_workers = 0
\* with ValueError, and one tp.submit of the list in line 127-128: the call
\* hands the job to the pool and returns, so the pool workers run while the
\* remaining jobs are being submitted
LocalDispatch ==
    /\ pc = "dispatch"
    /\ IF n_jobs = 0
       THEN /\ pc' = "failed"
            /\ error' = Fail("ValueError")
            /\ UNCHANGED <<jobs, dispatched, job_id>>
       ELSE /\ jobs' = [jobs EXCEPT ![job_id] = [st |-> "pending", idx |-> 0, block_ids |-> <<>>]]
            /\ dispatched' = dispatched + 1
            /\ job_id' = job_id + 1
            /\ pc' = IF job_id + 1 = n_jobs THEN "pool" ELSE "dispatch"
            /\ UNCHANGED error
    /\ UNCHANGED <<n_blocks, max_jobs, run_local, runs, n_jobs, job_configs,
                   queue_other, files, block_id, times, n_components,
                   processed_blocks, marker, partial_log, t2pc, marker2, readable,
                   out_dataset,
                   old_jobs, block_data, ds_written, cpc, produced, prepared, blkvars, wfvars>>

\* state of a unit of work whose process starts threshold_blocks: it loads
\* the job config (line 181-190) and keeps block_ids for its loop; open()
\* raises on a missing config and json.load on an empty one, which ends the
\* process
Started(j) ==
    IF ~job_configs[j].exists \/ job_configs[j].empty
    THEN [st |-> "crashed", idx |-> 0, block_ids |-> <<>>]
    ELSE IF Len(job_configs[j].block_list) = 0
         THEN [st |-> "done", idx |-> 0, block_ids |-> <<>>]
         ELSE [st |-> "running", idx |-> 1, block_ids |-> job_configs[j].block_list]

\* local mode: a pool worker executes _submit_job(job_id). Either the call
\* itself raises (assert on the script path, subprocess.call cannot spawn),
\* or the child process is started; its exit status is discarded.
LocalWorkerStart(j) ==
    /\ run_local
    /\ pc \in {"dispatch", "pool"}
    /\ jobs[j].st = "pending"
    /\ \/ jobs' = [jobs EXCEPT ![j] = [st |-> "raised", idx |-> 0, block_ids |-> <<>>]]
       \/ jobs' = [jobs EXCEPT ![j] = Started(j)]
    /\ UNCHANGED <<n_blocks, max_jobs, run_local, pc, runs, n_jobs, job_id, job_configs,
                   dispatched, queue_other, files, block_id, times, n_components,
                   processed_blocks, marker, partial_log, error, t2pc, marker2, readable,
                   out_dataset,
                   old_jobs, block_data, ds_written, cpc, produced, prepared, blkvars, wfvars>>

\* [t.result() for t in tasks] and the exit of the with-block: all workers
\* have returned; the first stored exception is re-raised by t.result()
LocalJoinNoWait ==
    /\ pc = "pool"
    /\ pc' = "collect"
    /\ readable' = WellFormed
    /\ produced' = WellFormed
    /\ UNCHANGED <<n_blocks, max_jobs, run_local, runs, n_jobs, job_id, job_configs,
                   jobs, dispatched, queue_other, files, block_id, times,
                   n_components, processed_blocks, marker, partial_log, error,
                   t2pc, marker2,
                   out_dataset,
                   old_jobs, block_data, ds_written, cpc, prepared, blkvars, wfvars>>
LocalJoin ==
    /\ pc = "pool"
    /\ \A j \in JobIds : ~Active(j)
    /\ IF \E j \in JobIds : jobs[j].st = "raised"
       THEN pc' = "failed" /\ error' = Fail("WorkerException")
       ELSE pc' = "collect" /\ UNCHANGED error
    /\ readable' = (IF \E j \in JobIds : jobs[j].st = "raised" THEN readable ELSE WellFormed)
    /\ produced' = (IF \E j \in JobIds : jobs[j].st = "raised" THEN produced ELSE WellFormed)
    /\ UNCHANGED <<n_blocks, max_jobs, run_local, runs, n_jobs, job_id, job_configs,
                   jobs, dispatched, queue_other, files, block_id, times,
                   n_components, processed_blocks, marker, partial_log, t2pc, marker2,
                   out_dataset,
                   old_jobs, block_data, ds_written, cpc, prepared, blkvars, wfvars>>

\* name under which _submit_job submits job j: bsub -J threshold_block_<j>
JobNameTag == "threshold_block"
\* tag handed to the queue wait: util.wait_for_jobs('papec')
WaitTag == "papec"

\* cluster mode: one iteration of "for job_id in range(n_jobs): _submit_job".
\* subprocess.call returns the exit status of bsub, which is discarded: an
\* accepted job enters the queue, a rejected one (or a missing bsub binary)
\* leaves nothing behind. Only a failure to spawn the shell raises.
ClusterSubmit ==
    /\ pc = "submit"
    /\ job_id < n_jobs
    /\ dispatched' = dispatched + 1
    /\ \/ /\ jobs' = [jobs EXCEPT ![job_id] = [st |-> "pending", idx |-> 0, block_ids |-> <<>>]]
          /\ job_id' = job_id + 1
          /\ UNCHANGED <<pc, error>>
       \/ /\ jobs' = [jobs EXCEPT ![job_id] = [st |-> "rejected", idx |-> 0, block_ids |-> <<>>]]
          /\ job_id' = job_id + 1
          /\ UNCHANGED <<pc, error>>
       \/ /\ jobs' = [jobs EXCEPT ![job_id] = [st |-> "raised", idx |-> 0, block_ids |-> <<>>]]
          /\ pc' = "failed"
          /\ error' = Fail("SubmitException")
          /\ UNCHANGED job_id
    /\ UNCHANGED <<n_blocks, max_jobs, run_local, runs, n_jobs, job_configs,
                   queue_other, files, block_id, times, n_components,
                   processed_blocks, marker, partial_log, t2pc, marker2, readable,
                   out_dataset,
                   old_jobs, block_data, ds_written, cpc, produced, prepared, blkvars, wfvars>>

\* the submit loop is exhausted; run() reaches util.wait_for_jobs
SubmitDone ==
    /\ pc = "submit"
    /\ job_id = n_jobs
    /\ pc' = "wait"
    /\ UNCHANGED <<n_blocks, max_jobs, run_local, runs, n_jobs, job_id, job_configs,
                   jobs, dispatched, queue_other, files, block_id, times,
                   n_components, processed_blocks, marker, partial_log, error,
                   t2pc, marker2, readable,
                   out_dataset,
                   old_jobs, block_data, ds_written, cpc, produced, prepared, blkvars, wfvars>>

\* the scheduler starts a queued job, of this run or of an earlier one: the
\* script runs threshold_blocks, which loads the job config
ClusterJobStart(g, j) ==
    /\ ~run_local
    /\ g \in 1..runs
    /\ JobOf(g, j).st = "pending"
    /\ SetJob(g, j, Started(j))
    /\ UNCHANGED <<n_blocks, max_jobs, run_local, pc, runs, n_jobs, job_id, job_configs,
                   dispatched, queue_other, files, block_id, times, n_components,
                   processed_blocks, marker, partial_log, error, t2pc, marker2, readable,
                   out_dataset,
                   block_data, ds_written, cpc, produced, prepared, blkvars, wfvars>>

\* the component count the worker reports for a block: 0 for a block whose
\* mask is empty (line 208-210), else n_comp = int(affs.max()) + 1 (line 237)
NComp(b) == IF block_data[b] = EmptyMask THEN 0 ELSE block_data[b] + 1

\* threshold_blocks: one iteration of "for block_id in block_ids" up to and
\* including open(res_file, 'w') (line 209 or 238), which truncates the file
\* at the path or creates it. A block with data in its mask is written to
\* ds_out[bb] before (line 236), a block with an empty mask is not. The
\* worker may raise, which ends the process: before it writes anything, or
\* in open() after the write to ds_out.
WorkerBlock(g, j) ==
    /\ g \in 1..runs
    /\ JobOf(g, j).st = "running"
    /\ LET b == JobOf(g, j).block_ids[JobOf(g, j).idx]
           written == IF block_data[b] = EmptyMask THEN ds_written ELSE ds_written \cup {b}
       IN  \/ /\ files' = [files EXCEPT ![b] = Truncated]
              /\ ds_written' = written
              /\ SetJob(g, j, [JobOf(g, j) EXCEPT !.st = "writing"])
           \/ /\ SetJob(g, j, [st |-> "crashed", idx |-> 0, block_ids |-> <<>>])
              /\ UNCHANGED <<files, ds_written>>
           \/ /\ block_data[b] # EmptyMask
              /\ SetJob(g, j, [st |-> "crashed", idx |-> 0, block_ids |-> <<>>])
              /\ ds_written' = written
              /\ UNCHANGED files
    /\ UNCHANGED <<n_blocks, max_jobs, run_local, pc, runs, n_jobs, job_id, job_configs,
                   dispatched, queue_other, block_id, times, n_components,
                   processed_blocks, marker, partial_log, error, t2pc, marker2, readable,
                   out_dataset,
                   block_data, cpc, produced, prepared, blkvars, wfvars>>

\* what the file at the path holds after json.dump wrote its text from
\* offset 0 of the handle: the text alone if the file was empty; if another
\* handle wrote to the file since this one was opened, the text alone or the
\* text followed by the tail of the other, longer one. The lengths of the
\* texts vary with the digits of the measured time.
DumpOver(old, new) == IF old.kind = "empty" THEN {new} ELSE {new, Garbled}

\* _collect_outputs has been entered in this run
ScanEntered == pc \in {"collect", "done"}
                 \/ (pc = "failed" /\ error.kind \in {"PartialCompletion", "AssertionError"})

\* threshold_blocks: json.dump into the opened result file and its close
\* (line 210 or 239), then the step to the next block id or the end of the
\* process. The text goes to the file the handle refers to: after os.remove
\* took the path, nothing appears at the path.
WorkerDump(g, j) ==
    /\ g \in 1..runs
    /\ JobOf(g, j).st \in {"writing", "orphaned"}
    /\ LET bl == JobOf(g, j).block_ids
           b == bl[JobOf(g, j).idx]
       IN  /\ IF JobOf(g, j).st = "orphaned"
              THEN UNCHANGED files
              ELSE \E t \in Durations :
                     \E f \in DumpOver(files[b], [kind |-> "ok", t |-> t, n |-> NComp(b)]) :
                        files' = [files EXCEPT ![b] = f]
           /\ produced' = IF ScanEntered /\ files'[b].kind = "ok" THEN produced \cup {b}
                          ELSE produced
           /\ SetJob(g, j, IF JobOf(g, j).idx = Len(bl)
                           THEN [st |-> "done", idx |-> 0, block_ids |-> <<>>]
                           ELSE [JobOf(g, j) EXCEPT !.st = "running", !.idx = @ + 1])
    /\ UNCHANGED <<n_blocks, max_jobs, run_local, pc, runs, n_jobs, job_id, job_configs,
                   dispatched, queue_other, block_id, times, n_components,
                   processed_blocks, marker, partial_log, error, t2pc, marker2, readable,
                   out_dataset,
                   block_data, ds_written, cpc, prepared, blkvars, wfvars>>

\* number of running or pending jobs in the queue that carry the given tag
CountRunningOrPending(tag) ==
    Cardinality({j \in JobIds : tag = JobNameTag /\ Active(j)})
    + Cardinality({gj \in (1..Len(old_jobs)) \X JobIds :
                     tag = JobNameTag /\ IsActive(old_jobs[gj[1]][gj[2]])})
    + (IF tag = "papec" /\ queue_other THEN 1 ELSE 0)

\* util.wait_for_jobs(tag): returns once the queue shows no such job
WaitForJobs(tag) == CountRunningOrPending(tag) = 0

\* if not self.run_local: util.wait_for_jobs('papec')
ClusterWait ==
    /\ pc = "wait"
    /\ WaitForJobs(WaitTag)
    /\ pc' = "collect"
    /\ readable' = WellFormed
    /\ produced' = WellFormed
    /\ UNCHANGED <<n_blocks, max_jobs, run_local, runs, n_jobs, job_id, job_configs,
                   jobs, dispatched, queue_other, files, block_id, times,
                   n_components, processed_blocks, marker, partial_log, error,
                   t2pc, marker2,
                   out_dataset,
                   old_jobs, block_data, ds_written, cpc, prepared, blkvars, wfvars>>

\* the other user's job leaves the queue
OtherJobEnds ==
    /\ queue_other
    /\ queue_other' = FALSE
    /\ UNCHANGED <<n_blocks, max_jobs, run_local, pc, runs, n_jobs, job_id, job_configs,
                   jobs, dispatched, files, block_id, times, n_components,
                   processed_blocks, marker, partial_log, error, t2pc, marker2, readable,
                   out_dataset,
                   old_jobs, block_data, ds_written, cpc, produced, prepared, blkvars, wfvars>>

\* ------------------------------------------------ _collect_outputs
\* the job after os.remove took the path of a result file: a process that
\* holds that file open keeps writing to a file without a path
Orphaned(job, b) ==
    IF job.st = "writing" /\ job.block_ids[job.idx] = b THEN [job EXCEPT !.st = "orphaned"] ELSE job

\* one iteration of "for block_id in range(n_blocks)" up to os.remove: the
\* read of the result file and the appends (line 72-78); every exception of
\* the body is swallowed by "except Exception: continue"
CollectBlock ==
    /\ pc = "collect"
    /\ cpc = "read"
    /\ block_id < n_blocks
    /\ LET res == files[block_id]
       IN  CASE res.kind = "ok" ->
                  /\ times' = Append(times, res.t)
                  /\ n_components' = Append(n_components, res.n)
                  /\ processed_blocks' = Append(processed_blocks, block_id)
                  /\ cpc' = "remove"
                  /\ UNCHANGED block_id
              [] res.kind = "no_n" ->
                  \* res['t'] was appended before res['n_components'] raised
                  /\ times' = Append(times, res.t)
                  /\ block_id' = block_id + 1
                  /\ UNCHANGED <<n_components, processed_blocks, cpc>>
              [] OTHER ->
                  /\ block_id' = block_id + 1
                  /\ UNCHANGED <<times, n_components, processed_blocks, cpc>>
    /\ UNCHANGED <<n_blocks, max_jobs, run_local, pc, runs, n_jobs, job_id, job_configs,
                   jobs, dispatched, queue_other, files, marker, partial_log, error,
                   t2pc, marker2, readable,
                   out_dataset,
                   old_jobs, block_data, ds_written, produced, prepared, blkvars, wfvars>>

\* os.remove(res_file) of the iteration (line 79): it takes the path,
\* whatever the file holds by now, or raises and is swallowed
CollectRemove ==
    /\ pc = "collect"
    /\ cpc = "remove"
    /\ cpc' = "read"
    /\ block_id' = block_id + 1
    /\ \/ /\ files' = [files EXCEPT ![block_id] = NoArtifact]
          /\ jobs' = [j \in JobIds |->
                        Orphaned(jobs[j], block_id)]
          /\ old_jobs' = [g \in 1..Len(old_jobs) |-> [j \in JobIds |->
                            Orphaned(old_jobs[g][j], block_id)]]
       \/ UNCHANGED <<files, jobs, old_jobs>>
    /\ UNCHANGED <<n_blocks, max_jobs, run_local, pc, runs, n_jobs, job_id, job_configs,
                   dispatched, queue_other, times, n_components, processed_blocks,
                   marker, partial_log, error, t2pc, marker2, readable,
                   out_dataset,
                   block_data, ds_written, produced, prepared, blkvars, wfvars>>

\* success = len(processed_blocks) == n_blocks
SuccessIfAny(processed, nb) == Len(processed) > 0 \/ nb = 0
Success(processed, nb) == Len(processed) = nb

\* the rest of run() after _collect_outputs returned: the assertion, the
\* decision, and the marker or the partial log with the RuntimeError
Decide ==
    /\ pc = "collect"
    /\ block_id = n_blocks
    /\ IF ~(Len(processed_blocks) = Len(n_components) /\ Len(n_components) = Len(times))
       THEN /\ pc' = "failed"
            /\ error' = Fail("AssertionError")
            /\ UNCHANGED <<marker, partial_log>>
       ELSE IF Success(processed_blocks, n_blocks)
       THEN /\ marker' = [exists |-> TRUE, n_components |-> n_components,
                          times |-> times, processed_blocks |-> <<>>]
            /\ pc' = "done"
            /\ UNCHANGED <<partial_log, error>>
       ELSE /\ partial_log' = [exists |-> TRUE, n_components |-> n_components,
                               times |-> times, processed_blocks |-> processed_blocks]
            /\ error' = [kind |-> "PartialCompletion", processed |-> Len(processed_blocks),
                         total |-> n_blocks, path |-> PartialLogPath]
            /\ pc' = "failed"
            /\ UNCHANGED marker
    /\ UNCHANGED <<n_blocks, max_jobs, run_local, runs, n_jobs, job_id, job_configs,
                   jobs, dispatched, queue_other, files, block_id, times,
                   n_components, processed_blocks, t2pc, marker2, readable,
                   out_dataset,
                   old_jobs, block_data, ds_written, cpc, produced, prepared, blkvars, wfvars>>

\* ------------------------------------------- WritePainteraMetadata
\* the scheduler runs the dependent task once everything it requires is
\* complete and it is not complete itself
MetadataStart ==
    /\ t2pc = "idle"
    /\ ~MetadataComplete
    /\ Requires
    /\ t2pc' = "running"
    /\ UNCHANGED <<n_blocks, max_jobs, run_local, pc, runs, n_jobs, job_id, job_configs,
                   jobs, dispatched, queue_other, files, block_id, times,
                   n_components, processed_blocks, marker, partial_log, error, marker2, readable,
                   out_dataset,
                   old_jobs, block_data, ds_written, cpc, produced, prepared, blkvars, wfvars>>

\* WritePainteraMetadata.run: writes the attributes and then its log, or
\* raises on a missing dataset or attribute before the log is written
MetadataRun ==
    /\ t2pc = "running"
    /\ \/ t2pc' = "done" /\ marker2' = TRUE
       \/ t2pc' = "failed" /\ UNCHANGED marker2
    /\ UNCHANGED <<n_blocks, max_jobs, run_local, pc, runs, n_jobs, job_id, job_configs,
                   jobs, dispatched, queue_other, files, block_id, times,
                   n_components, processed_blocks, marker, partial_log, error, readable,
                   out_dataset,
                   old_jobs, block_data, ds_written, cpc, produced, prepared, blkvars, wfvars>>

\* ------------------------------------------------ block bounding boxes
\* threshold_blocks, line 196-202, for the next block id: the blocking is
\* rebuilt from (shape, block_shape) and the box of the id is derived
BlockBox ==
    /\ bpc = "blocks"
    /\ Len(boxes) < n_blocks
    /\ boxes' = Append(boxes, BB(GetBlock(Len(boxes), shape, block_shape)))
    /\ UNCHANGED <<taskvars, wfvars, shape, block_shape, bpc>>

\* every block id in [0, numberOfBlocks) has been visited
BlocksDone ==
    /\ bpc = "blocks"
    /\ Len(boxes) = n_blocks
    /\ bpc' = "done"
    /\ UNCHANGED <<taskvars, wfvars, shape, block_shape, boxes>>

\* ------------------------------------------- ConversionWorkflow.requires
WorkflowFails(exc) ==
    /\ wpc' = "error"
    /\ werror' = exc

\* t1 = self._make_labels(self.dependency)
MakeLabels ==
    /\ wf = "conversion"
    /\ wpc = "make_labels"
    /\ IF label_exists
       THEN /\ wpc' = "align_scales"
            /\ UNCHANGED <<data, werror>>
       ELSE IF use_label_multiset
            THEN /\ WorkflowFails("TypeError")
                 /\ UNCHANGED data
            ELSE /\ data' = data \cup {label_scale}
                 /\ wpc' = "align_scales"
                 /\ UNCHANGED werror
    /\ t_dep' = 0
    /\ UNCHANGED <<taskvars, blkvars, wf, raw_scales, label_scale, label_exists, use_label_multiset,
                   assignment_key, scale_factors, chain, effective_scales, base_config, configs>>

\* t2, scale_factors = self._align_scales(t1)
AlignScales ==
    /\ wf = "conversion"
    /\ wpc = "align_scales"
    /\ LET rs == SortedSeq(raw_scales)
       IN  IF label_scale \notin raw_scales
           THEN /\ WorkflowFails("IndexError")
                /\ UNCHANGED <<scale_factors, chain, t_dep>>
           ELSE LET scale_idx == ArgWhere(rs, label_scale)
                    upsample_scales == SubSeq(rs, 1, scale_idx)
                    downsample_scales == SubSeq(rs, scale_idx + 2, Len(rs))
                    sfs == ScaleFactorList(rs)
                    t_up == UpsampleLabels(upsample_scales, sfs, label_scale, t_dep, chain)
                    t_down == DownsampleLabels(downsample_scales, sfs, label_scale, t_up.dep, t_up.chain)
                IN  IF t_up.err \/ t_down.err
                    THEN /\ WorkflowFails("IndexError")
                         /\ UNCHANGED <<scale_factors, chain, t_dep>>
                    ELSE /\ scale_factors' = sfs
                         /\ chain' = t_down.chain
                         /\ t_dep' = t_down.dep
                         /\ wpc' = "uniques"
                         /\ UNCHANGED werror
    /\ UNCHANGED <<taskvars, blkvars, wf, raw_scales, label_scale, label_exists, use_label_multiset,
                   assignment_key, data, effective_scales, base_config, configs>>

\* t3 = self._uniques_in_blocks(t2, len(scale_factors))
UniquesInBlocks ==
    /\ wf = "conversion"
    /\ wpc = "uniques"
    /\ LET n_scales == Len(scale_factors)
       IN  /\ chain' = chain \o [k \in 1..n_scales |->
                           Task("unique_block_labels", k - 1, k - 1, <<>>,
                                IF k = 1 THEN t_dep ELSE Len(chain) + k - 1)]
           /\ t_dep' = IF n_scales = 0 THEN t_dep ELSE Len(chain) + n_scales
    /\ wpc' = "assignment"
    /\ UNCHANGED <<taskvars, blkvars, wf, raw_scales, label_scale, label_exists, use_label_multiset,
                   assignment_key, data, scale_factors, werror, effective_scales, base_config, configs>>

\* t5 = self._fragment_segment_assignment(t3)
FragmentSegmentAssignment ==
    /\ wf = "conversion"
    /\ wpc = "assignment"
    /\ IF assignment_key = ""
       THEN /\ wpc' = "metadata"
            /\ UNCHANGED werror
       ELSE WorkflowFails("NotImplementedError")
    /\ UNCHANGED <<taskvars, blkvars, wf, raw_scales, label_scale, label_exists, use_label_multiset,
                   assignment_key, data, scale_factors, chain, t_dep, effective_scales, base_config,
                   configs>>

\* t6 = WritePainteraMetadata(..., dependency=t5); return t6
MakeMetadataTask ==
    /\ wf = "conversion"
    /\ wpc = "metadata"
    /\ chain' = Append(chain, Task("write_paintera_metadata", label_scale, label_scale, <<>>, t_dep))
    /\ t_dep' = Len(chain) + 1
    /\ wpc' = "built"
    /\ UNCHANGED <<taskvars, blkvars, wf, raw_scales, label_scale, label_exists, use_label_multiset,
                   assignment_key, data, scale_factors, werror, effective_scales, base_config, configs>>

\* --------------------------------------- BlocksFromMaskWorkflow.requires
\* the loop reads self.effecive_scales; the tasks are constructed without a
\* dependency argument
MaskRequires ==
    /\ wf = "mask"
    /\ wpc = "requires"
    /\ IF "effecive_scales" \notin MaskWorkflowAttributes
       THEN /\ WorkflowFails("AttributeError")
            /\ UNCHANGED <<chain, t_dep>>
       ELSE /\ chain' = [k \in 1..Len(effective_scales) |->
                           Task("blocks_from_mask", NoDependency, k - 1, <<>>, NoDependency)]
            /\ t_dep' = Len(effective_scales)
            /\ wpc' = "built"
            /\ UNCHANGED werror
    /\ UNCHANGED <<taskvars, blkvars, wf, raw_scales, label_scale, label_exists, use_label_multiset,
                   assignment_key, data, scale_factors, effective_scales, base_config, configs>>

\* ------------------------------------------------------------ get_config
\* ConversionWorkflow.get_config()
ConversionGetConfig ==
    /\ wf = "conversion_config"
    /\ wpc = "get_config"
    /\ configs' = Update(base_config,
                         [k \in {"unique_block_labels", "downscaling", "upscaling"} |-> DefaultTaskConfig(k)])
    /\ wpc' = "configured"
    /\ UNCHANGED <<taskvars, blkvars, wf, raw_scales, label_scale, label_exists, use_label_multiset,
                   assignment_key, data, scale_factors, chain, t_dep, werror, effective_scales,
                   base_config>>

\* BlocksFromMaskWorkflow.get_config()
MaskGetConfig ==
    /\ wf = "mask_config"
    /\ wpc = "get_config"
    /\ configs' = Update(base_config, [k \in {"blocks_from_mask"} |-> DefaultTaskConfig(k)])
    /\ wpc' = "configured"
    /\ UNCHANGED <<taskvars, blkvars, wf, raw_scales, label_scale, label_exists, use_label_multiset,
                   assignment_key, data, scale_factors, chain, t_dep, werror, effective_scales,
                   base_config>>

\* ---------------------------------------------------- specifications
Next ==
    \/ RunStart
    \/ PrepareOpen
    \/ PrepareJob
    \/ PrepareDone
    \/ LocalDispatch
    \/ \E j \in JobIds : LocalWorkerStart(j)
    \/ LocalJoin
    \/ ClusterSubmit
    \/ SubmitDone
    \/ \E g \in 1..MaxRuns : \E j \in JobIds : ClusterJobStart(g, j)
    \/ \E g \in 1..MaxRuns : \E j \in JobIds : WorkerBlock(g, j)
    \/ \E g \in 1..MaxRuns : \E j \in JobIds : WorkerDump(g, j)
    \/ ClusterWait
    \/ OtherJobEnds
    \/ CollectBlock
    \/ CollectRemove
    \/ Decide
    \/ MetadataStart
    \/ MetadataRun

Spec == Init /\ [][Next]_vars

\* the partitioner alone, over a larger range of inputs
NextPrepare ==
    \/ RunStart
    \/ PrepareOpen
    \/ PrepareJob
    \/ PrepareDone

SpecPrepare == InitPrepare /\ [][NextPrepare]_vars

\* the blocking alone, over all shapes and block shapes within the bounds
NextBlocking ==
    \/ BlockBox
    \/ BlocksDone

SpecBlocking == InitBlocking /\ [][NextBlocking]_vars

\* one call of a workflow method: requires() or get_config()
NextWorkflow ==
    \/ MakeLabels
    \/ AlignScales
    \/ UniquesInBlocks
    \/ FragmentSegmentAssignment
    \/ MakeMetadataTask
    \/ MaskRequires
    \/ ConversionGetConfig
    \/ MaskGetConfig

SpecWorkflow == InitWorkflow /\ [][NextWorkflow]_vars

\* ------------------------------------------------------------ claims
AllBlocks == 0..(n_blocks - 1)
PreparedJobs == {j \in JobIds : job_configs[j].exists}
DispatchedJobs == {j \in JobIds : jobs[j].st # "none"}
\* _collect_outputs returned in the current run and run() went on to decide
AggregationRan ==
    \/ pc = "done"
    \/ pc = "failed" /\ error.kind \in {"PartialCompletion", "AssertionError"}

\* C1: run prepares and dispatches exactly min(max_jobs, n_blocks) jobs, for
\* every n_blocks >= 0 and max_jobs >= 1: once the partitioner has returned
\* the job configs on disk are those of job ids 0..min-1, never more than
\* min jobs are dispatched, and when dispatch has completed exactly min were.
C1_JobCount ==
    LET m == Min(n_blocks, max_jobs)
    IN  /\ runs > 0 => n_jobs = m
        /\ pc \notin {"idle", "prepare", "dump"} => PreparedJobs = 0..(m - 1)
        /\ dispatched <= m
        /\ dispatched <= n_blocks
        /\ DispatchedJobs = 0..(dispatched - 1)
        /\ pc \in {"pool", "wait", "collect", "done"} => dispatched = m

\* C1 witness: more jobs allowed than blocks exist, all dispatched
C1_Witness ==
    /\ pc = "wait"
    /\ n_blocks = 1
    /\ max_jobs = 2
    /\ dispatched = 1

\* C2: for n_blocks >= 1 the job configs written by _prepare_jobs are the
\* round-robin stripes: job j owns exactly the ids of [0, n_blocks) congruent
\* to j modulo n_jobs, in increasing order; no list is empty, the lists are
\* pairwise disjoint and their union is [0, n_blocks).
C2_RoundRobin ==
    (pc \in {"dispatch", "submit"} /\ n_blocks >= 1) =>
        LET nj == Min(max_jobs, n_blocks)
            owned(j) == Range(job_configs[j].block_list)
        IN  /\ PreparedJobs = 0..(nj - 1)
            /\ \A j \in 0..(nj - 1) :
                  /\ owned(j) = {b \in AllBlocks : b % nj = j}
                  /\ owned(j) # {}
                  /\ \A i \in 1..(Len(job_configs[j].block_list) - 1) :
                        job_configs[j].block_list[i + 1] = job_configs[j].block_list[i] + nj
            /\ \A j, k \in 0..(nj - 1) : j # k => owned(j) \cap owned(k) = {}
            /\ UNION {owned(j) : j \in 0..(nj - 1)} = AllBlocks

\* C2 witness: 8 blocks and max_jobs = 3 give {0,3,6}, {1,4,7}, {2,5}
C2_Witness ==
    /\ pc \in {"dispatch", "submit"}
    /\ n_blocks = 8
    /\ max_jobs = 3
    /\ job_configs[0].block_list = <<0, 3, 6>>
    /\ job_configs[1].block_list = <<1, 4, 7>>
    /\ job_configs[2].block_list = <<2, 5>>

\* C3 (as claimed): if exactly k < n_blocks well-formed result files exist
\* when aggregation runs (no worker writing meanwhile), run() ends with the
\* partial-completion error carrying processed = k, total = n_blocks and the
\* partial-log path, and the partial log lists exactly those k block ids.
C3_PartialReport ==
    (run_local /\ AggregationRan /\ Cardinality(readable) < n_blocks) =>
        /\ pc = "failed"
        /\ error = [kind |-> "PartialCompletion", processed |-> Cardinality(readable),
                    total |-> n_blocks, path |-> PartialLogPath]
        /\ partial_log.exists
        /\ Range(partial_log.processed_blocks) = readable
        /\ Len(partial_log.processed_blocks) = Cardinality(readable)

\* C4 (as claimed): if all n_blocks result files are well-formed when
\* aggregation runs, the marker is written and no partial-results log exists
\* in the working directory when the task terminates, whatever ran before.
\* Both halves fail: a job that wait_for_jobs('papec') did not wait for
\* truncates a result file between the entry of _collect_outputs and the
\* scan's read of it, so no marker is written; and threshold_partial.json of
\* an earlier failed run is never removed, so it stands beside the marker.
C4_NoPartialLogAfterSuccess ==
    (AggregationRan /\ readable = AllBlocks) =>
        (pc = "done" /\ marker.exists /\ ~partial_log.exists)

\* C5: a run that ends with fewer than n_blocks processed blocks, or with
\* any other error, never writes the completion marker: the marker exists
\* only if the run that ended counted all n_blocks blocks as processed.
C5_MarkerOnlyOnFullCount ==
    /\ marker.exists => (pc = "done" /\ Len(processed_blocks) = n_blocks
                         /\ Len(marker.n_components) = n_blocks)
    /\ pc = "failed" => ~marker.exists

\* C5 witness: a run ended with some but not all blocks processed
C5_Witness ==
    /\ pc = "failed"
    /\ error.kind = "PartialCompletion"
    /\ Len(processed_blocks) > 0
    /\ Len(processed_blocks) < n_blocks
    /\ ~marker.exists

\* C6: in the chain ThresholdTask -> WritePainteraMetadata the dependent
\* task never starts before the marker of the first task exists; when the
\* first task has failed, the dependent task has not started and has no
\* completion marker.
C6_DependencyOrder ==
    /\ (t2pc # "idle" \/ marker2) => marker.exists
    /\ pc = "failed" => (t2pc = "idle" /\ ~marker2)

\* C6 witness: the first task failed partially, was re-run successfully, and
\* only then the dependent task started
C6_Witness ==
    /\ runs = 2
    /\ partial_log.exists
    /\ pc = "done"
    /\ t2pc = "running"
    /\ ~marker2

\* C7 (as claimed): in local mode, when a worker raised, the run still
\* reaches aggregation over all n_blocks ids; the worker's exception does
\* not leave run().
C7_WorkerFailureContained ==
    (run_local /\ pc \in {"done", "failed"}
       /\ \E j \in JobIds : jobs[j].st \in {"raised", "crashed"}) =>
        (error.kind # "WorkerException" /\ block_id = n_blocks)

\* C8 (as claimed): in cluster mode, once the submission of a job was
\* rejected (or the submit command could not be invoked), run() neither
\* waits on the queue nor aggregates, and writes neither marker nor
\* partial log: it fails with a submission error.
C8_SubmissionFailureFatal ==
    (~run_local /\ \E j \in JobIds : jobs[j].st = "rejected") =>
        /\ pc \notin {"wait", "collect", "done"}
        /\ error.kind \notin {"PartialCompletion", "AssertionError"}
        /\ (pc = "failed" => error.kind = "SubmitException")

\* C9 (as claimed): the scan absorbs every missing or malformed result file:
\* such a block is counted as unprocessed and contributes nothing to the
\* collected statistics, so the statistics lists hold exactly one entry per
\* processed block at every point of the scan.
C9_MalformedContributesNothing ==
    pc = "collect" =>
        /\ Len(times) = Len(processed_blocks)
        /\ Len(n_components) = Len(processed_blocks)

\* C10 (as claimed): in cluster mode aggregation never starts while a job
\* submitted by this task is still running or pending.
C10_NoAggregationWhileJobsActive ==
    (~run_local /\ pc = "collect") => \A j \in JobIds : ~Active(j)

\* C11 (as claimed): with n_blocks = 0 run() dispatches no job and completes
\* successfully in both modes: it never fails, and when it has ended the
\* marker holds empty statistics.
C11_ZeroBlocksCompletes ==
    n_blocks = 0 =>
        /\ dispatched = 0
        /\ pc # "failed"
        /\ pc = "done" => (marker.exists /\ marker.times = <<>> /\ marker.n_components = <<>>)

C14_ModesSameOutcome ==
    (AggregationRan /\ n_blocks >= 1
       /\ \A j \in 0..(n_jobs - 1) : jobs[j].st = "done") =>
        (pc = "done" /\ marker.exists /\ Len(marker.times) = n_blocks)

\* C19 (as claimed): the result file of every block that _collect_outputs
\* reports as processed has been deleted, after each completed iteration of
\* the scan and after it returned.
C19_ProcessedArtifactsDeleted ==
    ((pc = "collect" /\ cpc = "read") \/ AggregationRan) =>
        \A b \in Range(processed_blocks) : files[b].kind = "missing"

\* C20: in local mode aggregation starts only after every pool worker has
\* returned: while _collect_outputs runs, and after it, no unit of work
\* dispatched by this run is pending or executing.
C20_LocalAggregationAfterWorkers ==
    (run_local /\ (pc = "collect" \/ AggregationRan)) =>
        /\ \A j \in JobIds : ~Active(j)
        /\ ~OldActive
        /\ \A j \in 0..(n_jobs - 1) : jobs[j].st \in {"done", "crashed"}

\* C20 witness: the scan is under way after two workers returned, one of
\* them with a failure
C20_Witness ==
    /\ run_local
    /\ pc = "collect"
    /\ block_id >= 1
    /\ n_jobs >= 2
    /\ \E j \in 0..(n_jobs - 1) : jobs[j].st = "crashed"
    /\ \E j \in 0..(n_jobs - 1) : jobs[j].st = "done"

\* C13: for every shape S and block shape B of equal arity with positive
\* entries, the boxes of the block ids 0..numberOfBlocks-1 (numberOfBlocks =
\* product of ceil(S[i]/B[i])) lie inside the volume, are non-empty, and
\* every voxel of [0, S) lies in exactly one of them: the boxes do not
\* overlap, their union is the volume, and their volumes sum to volume(S).
Volume == {p \in [1..Arity -> 0..(MaxAxis - 1)] : \A i \in 1..Arity : p[i] < shape[i]}
BoxVolume(bb) == Prod([i \in 1..Len(bb) |-> bb[i].stop - bb[i].start])
RECURSIVE SumVolumes(_)
SumVolumes(bs) == IF Len(bs) = 0 THEN 0 ELSE BoxVolume(Head(bs)) + SumVolumes(Tail(bs))
C13_BlocksPartitionVolume ==
    bpc = "done" =>
        /\ Len(boxes) = Prod([i \in 1..Arity |-> CeilDiv(shape[i], block_shape[i])])
        /\ \A k \in 1..Len(boxes) : \A i \in 1..Arity :
              /\ 0 <= boxes[k][i].start
              /\ boxes[k][i].start < boxes[k][i].stop
              /\ boxes[k][i].stop <= shape[i]
        /\ \A p \in Volume : Cardinality({k \in 1..Len(boxes) : InBox(p, boxes[k])}) = 1
        /\ SumVolumes(boxes) = Prod(shape)

\* C13 witness: a volume whose boundary blocks are truncated on two axes
C13_Witness ==
    /\ bpc = "done"
    /\ shape = <<3, 3, 2>>
    /\ block_shape = <<2, 2, 2>>
    /\ Len(boxes) = 4
    /\ boxes[4] = <<[start |-> 2, stop |-> 3], [start |-> 2, stop |-> 3], [start |-> 0, stop |-> 2]>>

\* C15: when get_config merges the stage defaults under stage-name keys, a
\* key that is already present with a different value is never silently
\* overridden: the build of the configuration fails with an error instead.
C15_NoSilentOverride ==
    (wf \in {"conversion_config", "mask_config"} /\ wpc = "configured") =>
        \A k \in ConfigKeys :
            (base_config[k] # "absent" /\ configs[k] # base_config[k]) => werror # "none"

\* the tasks on which the k-th task of the chain transitively depends
RECURSIVE Ancestors(_)
Ancestors(k) ==
    IF chain[k].dep <= 0 THEN {} ELSE {chain[k].dep} \cup Ancestors(chain[k].dep)
UniquesTasks == {k \in 1..Len(chain) : chain[k].kind = "unique_block_labels"}
SamplingTasks == {k \in 1..Len(chain) : chain[k].kind \in {"upscaling", "downscaling"}}

\* C16: for every set of raw scales that contains label_scale, the chain
\* that ConversionWorkflow.requires returns holds one unique-labels task per
\* scale index 0..n_scales-1, each depending on the previous, and the label
\* dataset each of them reads is the linked origin scale or the output of a
\* sampling task it transitively depends on.
C16_UniquesInputsProduced ==
    (wf = "conversion" /\ wpc = "built" /\ label_scale \in raw_scales) =>
        /\ Cardinality(UniquesTasks) = Cardinality(raw_scales)
        /\ \A k \in UniquesTasks :
              /\ (k - 1) \in UniquesTasks => chain[k].dep = k - 1
              /\ chain[k].in_scale \in data \cup {chain[j].out_scale : j \in Ancestors(k) \cap SamplingTasks}

\* C17: BlocksFromMaskWorkflow.requires returns a linear chain over the
\* effective scales: the task of scale 0 depends on the workflow's own
\* dependency, the task of scale i > 0 on the task of scale i - 1, and the
\* returned task is the one of the last scale.
C17_MaskChainLinear ==
    (wf = "mask" /\ wpc # "requires") =>
        /\ werror = "none"
        /\ Len(chain) = Len(effective_scales)
        /\ \A k \in 1..Len(chain) : chain[k].out_scale = k - 1 /\ chain[k].dep = k - 1
        /\ t_dep = Len(chain)

\* scale factor of a scale in axis order ZYX, as _align_scales loads it
FactorOfScale(scale) == IF scale = 0 THEN <<1, 1, 1>> ELSE Reverse(DownsamplingFactors(scale))
Aligned == wf = "conversion" /\ wpc \in {"uniques", "assignment", "metadata", "built"}
NUp == Cardinality({x \in raw_scales : x < label_scale})
NDown == Cardinality({x \in raw_scales : x > label_scale})

\* C18: once _align_scales has returned, the first NUp tasks are the
\* upsampling tasks with outputs label_scale-1, label_scale-2, ..., followed
\* by the NDown downsampling tasks with outputs label_scale+1, ...; each
\* reads the origin scale (first of its sub-chain) or the output of the task
\* it depends on, its factor is FactorOfScale(out) // FactorOfScale(in), the
\* first upsampling task depends on the dependency handed in and the first
\* downsampling task on the last upsampling task.
C18_SamplingChains ==
    Aligned =>
        /\ Len(chain) >= NUp + NDown
        /\ SamplingTasks = 1..(NUp + NDown)
        /\ \A k \in 1..NUp :
              /\ chain[k].kind = "upscaling"
              /\ chain[k].out_scale = label_scale - k
        /\ \A k \in 1..NDown :
              /\ chain[NUp + k].kind = "downscaling"
              /\ chain[NUp + k].out_scale = label_scale + k
        /\ \A k \in 1..(NUp + NDown) :
              /\ chain[k].dep = k - 1
              /\ chain[k].in_scale = IF k = 1 \/ k = NUp + 1 THEN label_scale ELSE chain[chain[k].dep].out_scale
              /\ chain[k].factor = [i \in 1..Arity |->
                    FactorOfScale(chain[k].out_scale)[i] \div FactorOfScale(chain[k].in_scale)[i]]

\* C18 witness: two upsampling tasks and one downsampling task were chained
C18_Witness ==
    /\ wf = "conversion"
    /\ wpc = "built"
    /\ raw_scales = {0, 1, 2, 3}
    /\ label_scale = 2
    /\ chain[1].out_scale = 1
    /\ chain[2].out_scale = 0
    /\ chain[2].in_scale = 1
    /\ chain[3].kind = "downscaling"
    /\ chain[3].in_scale = 2
    /\ chain[3].dep = 2
    /\ chain[3].factor = <<1, 2, 2>>

\* blocks that produced a well-formed result file for the scan of this run:
\* those on disk when the scan started and those whose file a job, of this
\* run or of an earlier one, has completed since
ProducedArtifacts == produced

\* C21 (as claimed): the outcome of aggregation is a function of the set of
\* blocks that produced result files, whatever the order and the moment of
\* the jobs' completions: when run() has decided and every job has ended,
\* the processed-block list is that set in ascending order, the component
\* counts are those of these blocks, and the run succeeded iff the set holds
\* every block.
C21_OutcomeIndependentOfOrder ==
    (AggregationRan /\ ~OldActive /\ \A j \in JobIds : ~Active(j)) =>
        /\ processed_blocks = SortedSeq(ProducedArtifacts)
        /\ n_components = [i \in 1..Len(processed_blocks) |-> NComp(processed_blocks[i])]
        /\ error.kind # "AssertionError" => (pc = "done" <=> ProducedArtifacts = AllBlocks)

\* C24 (as claimed): whatever the result files hold, the three lists that
\* _collect_outputs returns have equal length, so the assertion of run()
\* never fails.
C24_AssertionNeverFails ==
    /\ error.kind # "AssertionError"
    /\ (pc = "collect" /\ block_id = n_blocks) =>
          (Len(processed_blocks) = Len(n_components) /\ Len(n_components) = Len(times))

\* C22: the output dataset is created once and before any job of the run is
\* dispatched: a step creates or changes it only when it did not exist and
\* no job has been dispatched or is active (of this run or left by an
\* earlier one), and every step that dispatches a job finds it present and
\* leaves it alone.
C22_DatasetCreatedBeforeDispatch ==
    [][/\ out_dataset' # out_dataset =>
             /\ ~out_dataset.exists
             /\ out_dataset'.exists
             /\ dispatched' = 0
             /\ \A j \in JobIds : jobs'[j].st = "none" /\ ~Active(j)
             /\ ~OldActive /\ ~OldActive'
       /\ dispatched' > dispatched => (out_dataset.exists /\ out_dataset' = out_dataset)]_vars

\* C22 witness: a re-run found the dataset of the first run, in which a
\* block was written, and its workers are running
C22_Witness ==
    /\ runs = 2
    /\ out_dataset.exists
    /\ out_dataset.shape = shape
    /\ ds_written # {}
    /\ \E j \in JobIds : jobs[j].st = "running"

\* C25: every block id in a job config that _prepare_jobs wrote lies in
\* [0, numberOfBlocks) of the blocking the worker recomputes from the shape
\* of the output dataset and the configured block shape, and the box the
\* worker derives for it is the box of the Task's blocking.
C25_ConfigIdsInWorkerRange ==
    \A j \in PreparedJobs : \A b \in Range(job_configs[j].block_list) :
        /\ out_dataset.exists
        /\ 0 <= b
        /\ b < NumberOfBlocks(WorkerShape(out_dataset), block_shape)
        /\ WorkerBB(b) = BB(GetBlock(b, shape, block_shape))

\* C25 witness: three job configs over eight blocks were written and the
\* output dataset has the shape of the mask
C25_Witness ==
    /\ pc \in {"dispatch", "submit"}
    /\ PreparedJobs = {0, 1, 2}
    /\ n_blocks = 8
    /\ out_dataset = [exists |-> TRUE, shape |-> <<8, 1, 1>>]
    /\ 7 \in Range(job_configs[1].block_list)

\* the block a job in the loop of threshold_blocks is working on
CurrentBlock(g, j) == JobOf(g, j).block_ids[JobOf(g, j).idx]
\* job j of the current run was dispatched with block b in its config: it
\* writes the result file and the output region of b
Writes(j, b) ==
    /\ jobs[j].st # "none"
    /\ \E i \in 1..Len(job_configs[j].block_list) : job_configs[j].block_list[i] = b
\* two boxes share a voxel
Overlap(bb1, bb2) ==
    \A i \in 1..Len(bb1) : bb1[i].start < bb2[i].stop /\ bb2[i].start < bb1[i].stop
\* the jobs of the Task, of whichever run, whose process is inside the loop
\* of threshold_blocks
RunningWorkers ==
    {w \in (1..runs) \X JobIds : JobOf(w[1], w[2]).st \in {"running", "writing", "orphaned"}}

\* C23 (as claimed): every result file and every output box has one writer:
\* no block belongs to two dispatched jobs of a run, once all jobs are
\* dispatched every block belongs to one, and two workers of the Task that
\* are running at the same time work on different blocks whose boxes share
\* no voxel.
C23_SingleWriter ==
    /\ \A j, k \in JobIds :
          (j < k /\ jobs[j].st # "none" /\ jobs[k].st # "none") =>
              \A b \in AllBlocks : ~(Writes(j, b) /\ Writes(k, b))
    /\ (n_jobs >= 1 /\ \A j \in 0..(n_jobs - 1) : jobs[j].st # "none") =>
          \A b \in AllBlocks : \E j \in 0..(n_jobs - 1) : Writes(j, b)
    /\ \A w1, w2 \in RunningWorkers :
          w1 # w2 =>
              /\ CurrentBlock(w1[1], w1[2]) # CurrentBlock(w2[1], w2[2])
              /\ ~Overlap(WorkerBB(CurrentBlock(w1[1], w1[2])),
                          WorkerBB(CurrentBlock(w2[1], w2[2])))
====
